---- MODULE Spec2Model ----
(***************************************************************************)
(* ParserModel (a2/student/parser model.ipynb): the embedding lookup, the  *)
(* forward pass and the notebook cells that run the two sanity checks.     *)
(*                                                                         *)
(* A 2-D tensor is a sequence of rows, a row a sequence of entries; a 3-D  *)
(* tensor a sequence of 2-D tensors.  TLA+ sequences start at 1, the       *)
(* code's indices at 0: At2 reads a tensor with the code's indices.        *)
(* Entries are integers (float32 is abstracted to Int): the properties     *)
(* below are about shapes, positions and the algebraic form of the result. *)
(***************************************************************************)
EXTENDS Integers, Sequences, FiniteSets, TLC

VARIABLES
    model,            \* the ParserModel in use (the notebook's global `model`)
    training,         \* nn.Module.training of that model
    call,             \* the method call in progress on the model, with its result
    args,             \* the notebook's global `args`
    execution_count,  \* per cell, the kernel's counter when it last ran (0: never)
    events,           \* per cell, what its last run did, in order
    stdout            \* per cell, the lines its last run printed

vars == <<model, training, call, args, execution_count, events, stdout>>

(***************************************************************************)
(* Bounds of the model.  The sanity-check cells use num_words = 100,       *)
(* embed_size = 30, batch = 4, n_features = 36 and hidden_size = 200; the  *)
(* same code is checked here at these smaller sizes.                       *)
(***************************************************************************)
NumWords == 2
EmbedSize == 2
NFeatures == 2
HiddenSize == 2

\* the kernel's execution counter stops here
MaxExecutions == 5

\* the batch sizes of the inputs; the rows of a batch are processed
\* independently of each other
BatchSizes == {1, 2}

\* the batch size the sanity checks draw (4 in the cells)
SanityBatch == CHOOSE b \in BatchSizes : \A c \in BatchSizes : c <= b

\* n_classes=3, the constructor's default
DefaultNClasses == 3

\* the numbers of output classes the model is built with
ClassCounts == {2, DefaultNClasses}

\* nn.Dropout(p) scales the kept entries by 1/(1-p): 2 for dropout_prob=0.5
KeepScale == 2

\* the sizes the sanity-check cells and the constructor's defaults use
CheckEmbedSize == 30
CheckBatch == 4
DefaultNFeatures == 36
DefaultHiddenSize == 200

(***************************************************************************)
(* Tensors                                                                 *)
(***************************************************************************)
RECURSIVE SumSeq(_)
SumSeq(s) == IF s = <<>> THEN 0 ELSE Head(s) + SumSeq(Tail(s))

RECURSIVE Concat(_)
\* the concatenation of a sequence of sequences
Concat(ss) == IF ss = <<>> THEN <<>> ELSE Head(ss) \o Concat(Tail(ss))

\* t.shape of a 2-D tensor with at least one row
Shape2(t) == <<Len(t), Len(t[1])>>

\* t[b][i] with the code's 0-based indices
At2(t, b, i) == t[b + 1][i + 1]

\* np.zeros((rows, cols))
zeros(rows, cols) == [i \in 1..rows |-> [k \in 1..cols |-> 0]]

\* randint with high included, as Python's random.randint has it
randint_inclusive(low, high, rows, cols) == [1..rows -> [1..cols -> low..high]]

\* torch.randint(low, high, (rows, cols)): every tensor with entries in
\* low..high-1 (high is exclusive)
randint(low, high, rows, cols) == [1..rows -> [1..cols -> low..(high - 1)]]

\* the row-major storage of a 3-D tensor: what x.view reinterprets
Storage3(t) == Concat([b \in 1..Len(t) |-> Concat(t[b])])

\* storage.view(rows, -1): -1 is inferred as numel / rows, and row b is the
\* b-th run of that many consecutive entries of the storage
view(storage, rows) ==
    LET cols == Len(storage) \div rows
    IN  [b \in 1..rows |-> [c \in 1..cols |-> storage[(b - 1) * cols + c]]]

\* torch.matmul(a, m) of 2-D tensors; the inner sizes must agree
matmul(a, m) ==
    [b \in 1..Len(a) |->
        [j \in 1..Len(m[1]) |->
            SumSeq([i \in 1..Len(m) |-> a[b][i] * m[i][j]])]]

\* a + bias, the bias broadcast over the rows
add_bias(a, bias) ==
    [b \in 1..Len(a) |-> [j \in 1..Len(a[b]) |-> a[b][j] + bias[j]]]

\* torch.relu
relu(a) ==
    [b \in 1..Len(a) |->
        [j \in 1..Len(a[b]) |-> IF a[b][j] > 0 THEN a[b][j] ELSE 0]]

\* nn.Dropout: the identity in evaluation mode; in training mode each entry is
\* zeroed where the sampled mask is 0 and scaled by 1/(1-p) where it is 1
dropout(a, train, mask) ==
    IF train
    THEN [b \in 1..Len(a) |->
            [j \in 1..Len(a[b]) |-> a[b][j] * mask[b][j] * KeepScale]]
    ELSE a

\* the masks the model samples for a (rows, cols) activation: all kept, all
\* dropped, and the two checkerboards
DropoutMasks(rows, cols) ==
    {[b \in 1..rows |-> [j \in 1..cols |-> 1]],
     [b \in 1..rows |-> [j \in 1..cols |-> 0]],
     [b \in 1..rows |-> [j \in 1..cols |-> (b + j) % 2]],
     [b \in 1..rows |-> [j \in 1..cols |-> (b + j + 1) % 2]]}

(***************************************************************************)
(* ParserModel                                                             *)
(***************************************************************************)
\* init.xavier_uniform_ on a (rows, cols) parameter: entries of either sign
xavier_uniform(rows, cols, seed) ==
    [i \in 1..rows |-> [j \in 1..cols |-> ((seed + i * cols + j) % 3) - 1]]

\* init.uniform_ on a bias: non-negative entries
uniform(n, seed) == [j \in 1..n |-> (seed + j) % 2]

\* ParserModel.__init__
ParserModel(embeddings, n_features, hidden_size, n_classes, seed) ==
    [n_features |-> n_features,
     n_classes |-> n_classes,
     embed_size |-> Len(embeddings[1]),
     hidden_size |-> hidden_size,
     embeddings |-> embeddings,
     embed_to_hidden_weight |->
         xavier_uniform(Len(embeddings[1]) * n_features, hidden_size, seed),
     embed_to_hidden_bias |-> uniform(hidden_size, seed),
     hidden_to_logits_weight |->
         xavier_uniform(hidden_size, n_classes, seed + 1),
     hidden_to_logits_bias |-> uniform(n_classes, seed + 1)]

\* self.embeddings[w]: entry [b][f] is row w[b][f] of the matrix (a negative
\* index counts from the end)
index_rows(embeddings, w) ==
    LET n == Len(embeddings)
        row(i) == IF i < 0 THEN embeddings[i + n + 1] ELSE embeddings[i + 1]
    IN  [b \in 1..Len(w) |-> [f \in 1..Len(w[b]) |-> row(w[b][f])]]

\* whether every index of w is one self.embeddings[w] accepts
InRange(embeddings, w) ==
    \A b \in 1..Len(w) : \A f \in 1..Len(w[b]) :
        /\ w[b][f] >= -Len(embeddings)
        /\ w[b][f] < Len(embeddings)

\* embedding_lookup with the selected rows interleaved: entry k of every
\* feature's row, then entry k+1 of every row (x.transpose(1, 2) before view)
embedding_lookup_interleaved(m, w) ==
    IF ~InRange(m.embeddings, w)
    THEN [error |-> "IndexError", value |-> <<>>]
    ELSE LET x == index_rows(m.embeddings, w)
             t == [b \in 1..Len(x) |->
                      [k \in 1..Len(x[b][1]) |->
                          [f \in 1..Len(x[b]) |-> x[b][f][k]]]]
         IN  [error |-> "none", value |-> view(Storage3(t), Len(t))]

\* ParserModel.embedding_lookup: the tensor, or an IndexError
embedding_lookup(m, w) ==
    IF ~InRange(m.embeddings, w)
    THEN [error |-> "IndexError", value |-> <<>>]
    ELSE LET x == index_rows(m.embeddings, w)
         IN  [error |-> "none", value |-> view(Storage3(x), Len(x))]

\* forward without its output layer: the dropped-out hidden activation is
\* returned as the logits
forward_hidden_only(m, w, train, mask) ==
    LET looked == embedding_lookup(m, w)
    IN  IF looked.error # "none"
        THEN [error |-> looked.error, x |-> <<>>, hidden |-> <<>>,
              value |-> <<>>]
        ELSE LET x == looked.value
                 a == add_bias(matmul(x, m.embed_to_hidden_weight),
                               m.embed_to_hidden_bias)
                 h == relu(a)
                 d == dropout(h, train, mask)
             IN  [error |-> "none", x |-> x, hidden |-> <<h>>, value |-> d]

\* forward with the ReLU applied to the output layer instead of the hidden one
forward_relu_last(m, w, train, mask) ==
    LET looked == embedding_lookup(m, w)
    IN  IF looked.error # "none"
        THEN [error |-> looked.error, x |-> <<>>, hidden |-> <<>>,
              value |-> <<>>]
        ELSE LET x == looked.value
                 a == add_bias(matmul(x, m.embed_to_hidden_weight),
                               m.embed_to_hidden_bias)
                 d == dropout(a, train, mask)
                 logits == add_bias(matmul(d, m.hidden_to_logits_weight),
                                    m.hidden_to_logits_bias)
             IN  [error |-> "none", x |-> x, hidden |-> <<a>>,
                  value |-> relu(logits)]

\* forward with the ReLU left out
forward_no_relu(m, w, train, mask) ==
    LET looked == embedding_lookup(m, w)
    IN  IF looked.error # "none"
        THEN [error |-> looked.error, x |-> <<>>, hidden |-> <<>>,
              value |-> <<>>]
        ELSE LET x == looked.value
                 a == add_bias(matmul(x, m.embed_to_hidden_weight),
                               m.embed_to_hidden_bias)
                 d == dropout(a, train, mask)
                 logits == add_bias(matmul(d, m.hidden_to_logits_weight),
                                    m.hidden_to_logits_bias)
             IN  [error |-> "none", x |-> x, hidden |-> <<a>>,
                  value |-> logits]

\* ParserModel.forward: the logits, with the input features x and the
\* activations of the layers between x and the logits
forward(m, w, train, mask) ==
    LET looked == embedding_lookup(m, w)
    IN  IF looked.error # "none"
        THEN [error |-> looked.error, x |-> <<>>, hidden |-> <<>>,
              value |-> <<>>]
        ELSE LET x == looked.value
                 a == add_bias(matmul(x, m.embed_to_hidden_weight),
                               m.embed_to_hidden_bias)
                 h == relu(a)
                 d == dropout(h, train, mask)
                 logits == add_bias(matmul(d, m.hidden_to_logits_weight),
                                    m.hidden_to_logits_bias)
             IN  [error |-> "none", x |-> x, hidden |-> <<h>>,
                  value |-> logits]

\* the shape torch.matmul gives two 2-D shapes; <<>> where it raises
matmul_shape(s, t) == IF s[2] = t[1] THEN <<s[1], t[2]>> ELSE <<>>

\* the shapes forward goes through, for an input of shape wshape: indexing
\* gives wshape + (embed_size,), view keeps the first size and folds the rest
forward_shape(embed_size, n_features, hidden_size, n_classes, wshape) ==
    LET numel == wshape[1] * wshape[2] * embed_size
        x == <<wshape[1], numel \div wshape[1]>>
        h == matmul_shape(x, <<embed_size * n_features, hidden_size>>)
    IN  IF h = <<>> THEN <<>> ELSE matmul_shape(h, <<hidden_size, n_classes>>)

(***************************************************************************)
(* The sanity checks and the cells that run them                           *)
(***************************************************************************)
EmbeddingMsg == "Embedding_lookup sanity check passes!"
ForwardMsg == "Forward sanity check passes!"
NoMsg == "No"

\* args = argparse.Namespace(embedding=True, forward=False)
NotebookArgs == [embedding |-> TRUE, forward |-> FALSE]

\* expected_out_shape = (4, 3)
ExpectedClasses == 3
expected_out_shape == <<SanityBatch, ExpectedClasses>>

\* np.all(selected.data.numpy() == 0)
all_zero(t) == \A b \in 1..Len(t) : \A i \in 1..Len(t[b]) : t[b][i] = 0

\* check_embedding on the drawn inds: "ok" when it returns, else the
\* exception it raises
check_embedding(m, inds) ==
    LET selected == embedding_lookup(m, inds)
    IN  IF selected.error # "none" THEN selected.error
        ELSE IF all_zero(selected.value) THEN "ok"
        ELSE "AssertionError"

\* check_forward on the drawn inputs and dropout mask
check_forward(m, train, inputs, mask) ==
    LET out == forward(m, inputs, train, mask)
    IN  IF out.error # "none" THEN out.error
        ELSE IF Shape2(out.value) = expected_out_shape THEN "ok"
        ELSE "AssertionError"

\* the draws of the random initialisation
Seeds == {0, 1}

\* embeddings = np.zeros((100, 30)); model = ParserModel(embeddings)
SanityModel(seed) ==
    ParserModel(zeros(NumWords, EmbedSize), NFeatures, HiddenSize,
                DefaultNClasses, seed)

\* what check_embedding can do, over every draw of torch.randint, per draw
\* of the model's initialisation
EmbeddingOutcomes ==
    [seed \in Seeds |->
        {check_embedding(SanityModel(seed), inds) :
            inds \in randint(0, NumWords, SanityBatch, NFeatures)}]

\* what check_forward can do, over every draw of torch.randint and every
\* sampled dropout mask; the model is in training mode, as every new
\* nn.Module is
ForwardOutcomes ==
    [seed \in Seeds |->
        {check_forward(SanityModel(seed), TRUE, inputs, mask) :
            inputs \in randint(0, NumWords, SanityBatch, NFeatures),
            mask \in DropoutMasks(SanityBatch, HiddenSize)}]

Ev(kind, what) == [kind |-> kind, what |-> what]

\* a guarded check that prints its message before it runs the check
GuardedCheck_PrintFirst(flag, check, outcome, msg, else_msg) ==
    IF ~flag
    THEN [events |-> IF else_msg = "" THEN <<>> ELSE <<Ev("print", else_msg)>>,
          out |-> IF else_msg = "" THEN <<>> ELSE <<else_msg>>,
          raised |-> FALSE]
    ELSE IF outcome = "ok"
    THEN [events |-> <<Ev("print", msg), Ev("call", check),
                       Ev("return", check)>>,
          out |-> <<msg>>,
          raised |-> FALSE]
    ELSE [events |-> <<Ev("print", msg), Ev("call", check),
                       Ev("raise", outcome)>>,
          out |-> <<msg>>,
          raised |-> TRUE]

\* a run of one guarded check:
\*     if flag: check(); print(msg)          [else: print(else_msg)]
\* given what the check does (outcome); else_msg is "" where there is no else
GuardedCheck(flag, check, outcome, msg, else_msg) ==
    IF ~flag
    THEN [events |-> IF else_msg = "" THEN <<>> ELSE <<Ev("print", else_msg)>>,
          out |-> IF else_msg = "" THEN <<>> ELSE <<else_msg>>,
          raised |-> FALSE]
    ELSE IF outcome = "ok"
    THEN [events |-> <<Ev("call", check), Ev("return", check),
                       Ev("print", msg)>>,
          out |-> <<msg>>,
          raised |-> FALSE]
    ELSE [events |-> <<Ev("call", check), Ev("raise", outcome)>>,
          out |-> <<>>,
          raised |-> TRUE]

\* two statements in sequence: the second runs only if the first did not raise
Then(first, second) ==
    IF first.raised THEN first
    ELSE [events |-> first.events \o second.events,
          out |-> first.out \o second.out,
          raised |-> second.raised]

\* if args.embedding: check_embedding(); print(...)
EmbeddingBranch(a, outcome) ==
    GuardedCheck(a.embedding, "check_embedding", outcome, EmbeddingMsg, "")

\* the forward branch guarded by the embedding flag
ForwardBranch_EmbeddingFlag(a, outcome) ==
    GuardedCheck(a.embedding, "check_forward", outcome, ForwardMsg, "")

\* if args.forward: check_forward(); print(...)
ForwardBranch(a, outcome) ==
    GuardedCheck(a.forward, "check_forward", outcome, ForwardMsg, "")

\* if args.forward: check_forward(); print(...) else: print("No")
ForwardElseBranch(a, outcome) ==
    GuardedCheck(a.forward, "check_forward", outcome, ForwardMsg, NoMsg)

\* the body of each cell after it has built the model
CellBody(c, a, embedding_outcome, forward_outcome) ==
    CASE c = "combined" ->
            Then(EmbeddingBranch(a, embedding_outcome),
                 ForwardBranch(a, forward_outcome))
      [] c = "embedding_only" -> EmbeddingBranch(a, embedding_outcome)
      [] c = "forward_only" -> ForwardElseBranch(a, forward_outcome)

CheckCells == {"combined", "embedding_only", "forward_only"}
Cells == {"imports", "args"} \cup CheckCells

\* the kernel's execution counter: the largest count a cell carries
Counter ==
    CHOOSE n \in {execution_count[c] : c \in Cells} :
        \A c \in Cells : execution_count[c] <= n

(***************************************************************************)
(* The model as a client uses it                                           *)
(***************************************************************************)
\* the embedding matrices the model is built with: np.zeros and one with
\* pairwise distinct entries of either sign
EmbeddingChoices ==
    {zeros(NumWords, EmbedSize),
     [i \in 1..NumWords |-> [k \in 1..EmbedSize |->
          IF (i + k) % 2 = 0 THEN (i - 1) * EmbedSize + k
          ELSE -((i - 1) * EmbedSize + k)]]}

NoCall ==
    [op |-> "none", w |-> <<>>, mask |-> <<>>, error |-> "none",
     x |-> <<>>, hidden |-> <<>>, logits |-> <<>>]

NoArgs == [embedding |-> FALSE, forward |-> FALSE]

\* a client has built a model; no notebook cell is involved
Init ==
    /\ \E e \in EmbeddingChoices, c \in ClassCounts, seed \in Seeds :
          model = ParserModel(e, NFeatures, HiddenSize, c, seed)
    /\ training = TRUE
    /\ call = NoCall
    /\ args = NoArgs
    /\ execution_count = [c \in Cells |-> 0]
    /\ events = [c \in Cells |-> <<>>]
    /\ stdout = [c \in Cells |-> <<>>]

\* model.train() / model.eval()
SetMode ==
    /\ call.op = "none"
    /\ training' = ~training
    /\ UNCHANGED <<model, call, args, execution_count, events, stdout>>

\* model.embedding_lookup(w)
EmbeddingLookup ==
    /\ call.op = "none"
    /\ \E b \in BatchSizes :
       \E w \in randint(0, Len(model.embeddings), b, model.n_features) :
          LET r == embedding_lookup(model, w)
          IN  call' = [NoCall EXCEPT !.op = "embedding_lookup", !.w = w,
                                     !.error = r.error, !.x = r.value]
    /\ UNCHANGED <<model, training, args, execution_count, events, stdout>>

\* model(w)
Forward ==
    /\ call.op = "none"
    /\ \E b \in BatchSizes :
       \E w \in randint(0, Len(model.embeddings), b, model.n_features) :
       \E mask \in IF training THEN DropoutMasks(b, model.hidden_size)
                   ELSE {<<>>} :
          LET r == forward(model, w, training, mask)
          IN  call' = [NoCall EXCEPT !.op = "forward", !.w = w,
                                     !.mask = mask, !.error = r.error,
                                     !.x = r.x, !.hidden = r.hidden,
                                     !.logits = r.value]
    /\ UNCHANGED <<model, training, args, execution_count, events, stdout>>

\* the call returns
Return ==
    /\ call.op # "none"
    /\ call' = NoCall
    /\ UNCHANGED <<model, training, args, execution_count, events, stdout>>

Next == SetMode \/ EmbeddingLookup \/ Forward \/ Return

Spec == Init /\ [][Next]_vars

(***************************************************************************)
(* The notebook                                                            *)
(***************************************************************************)
\* before a check cell has run, the global `model` is not bound
Unbound == [embeddings |-> <<>>]

\* the kernel after the import cell and the args cell have run; args stands
\* for the command line's two store_true flags, so each is either value
InitNotebook ==
    /\ model = Unbound
    /\ training = TRUE
    /\ call = NoCall
    /\ args \in [embedding : BOOLEAN, forward : BOOLEAN]
    /\ execution_count =
          [c \in Cells |-> CASE c = "imports" -> 1 [] c = "args" -> 2
                             [] OTHER -> 0]
    /\ events = [c \in Cells |-> <<>>]
    /\ stdout = [c \in Cells |-> <<>>]

\* run check cell c: build the zero embeddings and the model, then the
\* cell's guarded checks; a check that is not called draws nothing
RunCell(c) ==
    /\ Counter < MaxExecutions
    /\ \E seed \in Seeds :
       \E eo \in IF args.embedding /\ c # "forward_only"
                 THEN EmbeddingOutcomes[seed] ELSE {"not called"} :
       \E fo \in IF args.forward /\ c # "embedding_only"
                 THEN ForwardOutcomes[seed] ELSE {"not called"} :
          LET r == CellBody(c, args, eo, fo)
          IN  /\ model' = SanityModel(seed)
              /\ events' = [events EXCEPT ![c] = r.events]
              /\ stdout' = [stdout EXCEPT ![c] = r.out]
    /\ training' = TRUE
    /\ execution_count' = [execution_count EXCEPT ![c] = Counter + 1]
    /\ UNCHANGED <<call, args>>

RunCombined == RunCell("combined")
RunEmbeddingOnly == RunCell("embedding_only")
RunForwardOnly == RunCell("forward_only")

NextNotebook == RunCombined \/ RunEmbeddingOnly \/ RunForwardOnly

SpecNotebook == InitNotebook /\ [][NextNotebook]_vars

(***************************************************************************)
(* Properties                                                              *)
(***************************************************************************)
\* embeddings[i][k] with the code's 0-based indices
EmbeddingAt(m, i, k) == m.embeddings[i + 1][k + 1]

\* C1: embedding_lookup(w) of a (batch_size, n_features) tensor of in-range
\* indices has shape (batch_size, n_features * embed_size), and its element
\* [b][f * embed_size + k] is embeddings[w[b][f]][k]: the selected rows are
\* concatenated in feature order, one batch row per input row.
C1_LookupLayout ==
    call.op = "embedding_lookup" =>
        /\ call.error = "none"
        /\ Shape2(call.x) = <<Len(call.w), model.n_features * model.embed_size>>
        /\ \A b \in 0..(Len(call.w) - 1) :
           \A f \in 0..(model.n_features - 1) :
           \A k \in 0..(model.embed_size - 1) :
              At2(call.x, b, f * model.embed_size + k)
                 = EmbeddingAt(model, At2(call.w, b, f), k)

\* a lookup of two rows that select different words, in a matrix whose
\* entries differ, so that the order of the concatenation shows
C1_Witness ==
    /\ call.op = "embedding_lookup"
    /\ Len(call.w) = 2
    /\ call.w[1] # call.w[2]
    /\ call.w[1][1] # call.w[1][2]
    /\ model.embeddings # zeros(NumWords, EmbedSize)
    /\ call.x[1] # call.x[2]

\* C2: forward(w) of a (batch_size, n_features) tensor of in-range indices
\* returns logits of shape (batch_size, n_classes), in training mode and in
\* evaluation mode alike; with the defaults and a 4 x 36 input that is (4, 3).
C2_ForwardShape ==
    /\ call.op = "forward" =>
          /\ call.error = "none"
          /\ Shape2(call.logits) = <<Len(call.w), model.n_classes>>
          /\ \A b \in 1..Len(call.logits) :
                Len(call.logits[b]) = model.n_classes
          /\ Shape2(call.logits)
                = forward_shape(model.embed_size, model.n_features,
                                model.hidden_size, model.n_classes,
                                Shape2(call.w))
    /\ forward_shape(CheckEmbedSize, DefaultNFeatures, DefaultHiddenSize,
                     DefaultNClasses, <<CheckBatch, DefaultNFeatures>>)
          = <<CheckBatch, DefaultNClasses>>

\* a forward pass in training mode, on two rows, with some hidden units
\* dropped, by a model with the default number of classes
C2_Witness ==
    /\ call.op = "forward"
    /\ training
    /\ Len(call.w) = 2
    /\ \E b \in 1..2, j \in 1..model.hidden_size : call.mask[b][j] = 0
    /\ model.n_classes = DefaultNClasses
    /\ model.hidden_size # model.n_classes

\* the pre-activation of hidden unit j for row b of the features x
PreActivation(m, x, b, j) ==
    m.embed_to_hidden_bias[j]
      + SumSeq([i \in 1..Len(x[b]) |-> x[b][i] * m.embed_to_hidden_weight[i][j]])

Max0(v) == IF v > 0 THEN v ELSE 0

\* b2[c] + sum over j of keep(b, j) * max(0, b1[j] + sum over i of
\* x[b][i] * W1[i][j]) * W2[j][c]
LogitFormula(m, x, b, c, keep(_, _)) ==
    m.hidden_to_logits_bias[c]
      + SumSeq([j \in 1..m.hidden_size |->
                  keep(b, j) * Max0(PreActivation(m, x, b, j))
                     * m.hidden_to_logits_weight[j][c]])

KeepAll(b, j) == 1
KeepMasked(b, j) == call.mask[b][j] * KeepScale

\* C3: forward applies embedding_lookup, the first affine transform, ReLU,
\* dropout and the second affine transform, in this order, and returns the
\* result without a softmax: in evaluation mode logits[b][c] = b2[c] +
\* sum_j max(0, b1[j] + sum_i x[b][i] W1[i][j]) W2[j][c] with
\* x = embedding_lookup(w); in training mode each term of the sum over j
\* carries the dropout factor of hidden unit j of row b.
C3_ForwardFormula ==
    call.op = "forward" =>
        LET x == embedding_lookup(model, call.w).value
        IN  \A b \in 1..Len(call.w) : \A c \in 1..model.n_classes :
               call.logits[b][c] =
                  IF training
                  THEN LogitFormula(model, x, b, c, KeepMasked)
                  ELSE LogitFormula(model, x, b, c, KeepAll)

\* an evaluation-mode forward pass in which the ReLU clips a hidden unit, a
\* logit is negative and the logits of a row do not sum to 1
C3_Witness ==
    /\ call.op = "forward"
    /\ ~training
    /\ \E b \in 1..Len(call.w) :
          /\ \E j \in 1..model.hidden_size :
                PreActivation(model, call.x, b, j) < 0
          /\ \E j \in 1..model.hidden_size :
                PreActivation(model, call.x, b, j) > 0
          /\ \E c \in 1..model.n_classes : call.logits[b][c] < 0
          /\ SumSeq(call.logits[b]) # 1

\* the values of the entries of the embedding matrix
EmbeddingEntries(m) ==
    {m.embeddings[i][k] : i \in 1..Len(m.embeddings), k \in 1..m.embed_size}

\* C4: embedding_lookup never indexes out of range on indices drawn from
\* 0..num_words-1, every element of its result is the value of an entry of
\* the embedding matrix, and against the zero matrix the result is all zero:
\* the assertion of check_embedding holds for every draw.
C4_LookupOfZeros ==
    call.op = "embedding_lookup" =>
        /\ call.error = "none"
        /\ \A b \in 1..Len(call.x) : \A i \in 1..Len(call.x[b]) :
              call.x[b][i] \in EmbeddingEntries(model)
        /\ model.embeddings = zeros(NumWords, EmbedSize) =>
              /\ all_zero(call.x)
              /\ check_embedding(model, call.w) = "ok"

\* a lookup in the zero matrix by a batch of the size the check draws, the
\* largest index among the indices
C4_Witness ==
    /\ call.op = "embedding_lookup"
    /\ model.embeddings = zeros(NumWords, EmbedSize)
    /\ Len(call.w) = SanityBatch
    /\ \E b \in 1..Len(call.w), f \in 1..model.n_features :
          call.w[b][f] = NumWords - 1
    /\ Shape2(call.x) = <<SanityBatch, NFeatures * EmbedSize>>

Ran(c) == execution_count[c] > 0
Happened(c, kind, what) ==
    \E i \in 1..Len(events[c]) : events[c][i] = Ev(kind, what)
Printed(c, msg) == \E i \in 1..Len(stdout[c]) : stdout[c][i] = msg

\* the success message of each check
MsgOf(check) ==
    IF check = "check_embedding" THEN EmbeddingMsg ELSE ForwardMsg

\* the check each cell holds behind each flag
ChecksOf(c) ==
    CASE c = "combined" -> {"check_embedding", "check_forward"}
      [] c = "embedding_only" -> {"check_embedding"}
      [] c = "forward_only" -> {"check_forward"}

FlagOf(check) ==
    IF check = "check_embedding" THEN args.embedding ELSE args.forward

WellOrdered(c, ev, out) ==
    /\ \A i \in 1..Len(ev) :
          /\ (ev[i].kind = "print" /\ ev[i].what # NoMsg) =>
                /\ i > 2
                /\ \E check \in ChecksOf(c) :
                      /\ ev[i].what = MsgOf(check)
                      /\ ev[i - 1] = Ev("return", check)
                      /\ ev[i - 2] = Ev("call", check)
          /\ ev[i].kind = "call" =>
                /\ i < Len(ev)
                /\ \/ ev[i + 1] = Ev("return", ev[i].what)
                   \/ ev[i + 1].kind = "raise"
          /\ ev[i].kind = "raise" => i = Len(ev)
    /\ \A check \in ChecksOf(c) :
          (\E i \in 1..Len(out) : out[i] = MsgOf(check)) =>
             \E i \in 1..Len(ev) : ev[i] = Ev("return", check)
    /\ Len(out) = Cardinality({j \in 1..Len(ev) : ev[j].kind = "print"})
    /\ \A i \in 1..Len(out) : \E j \in 1..Len(ev) : ev[j] = Ev("print", out[i])

\* what a check can do at all: return, or raise on its assertion
CheckResults == {"ok", "AssertionError"}

\* C7: a success message is printed only after its check returned without
\* raising, in every run of every cell; and whatever the checks do, a failed
\* assertion propagates: the failed check's message is not printed, the run
\* ends there and no later check of the cell is called.
C7_PassOnlyAfterReturn ==
    \A c \in CheckCells :
       /\ WellOrdered(c, events[c], stdout[c])
       /\ \A a \in [embedding : BOOLEAN, forward : BOOLEAN] :
          \A eo \in CheckResults, fo \in CheckResults :
             LET r == CellBody(c, a, eo, fo)
                 failed(check, o) ==
                     /\ check \in ChecksOf(c)
                     /\ IF check = "check_embedding" THEN a.embedding
                        ELSE a.forward
                     /\ o # "ok"
                 first == IF failed("check_embedding", eo)
                          THEN "check_embedding" ELSE "check_forward"
             IN  /\ WellOrdered(c, r.events, r.out)
                 /\ (failed("check_embedding", eo) \/ failed("check_forward", fo))
                       <=> r.raised
                 /\ r.raised =>
                       /\ r.events[Len(r.events)] = Ev("raise", "AssertionError")
                       /\ r.events[Len(r.events) - 1] = Ev("call", first)
                       /\ \A i \in 1..Len(r.out) : r.out[i] # MsgOf(first)
                       /\ first = "check_embedding" =>
                             \A i \in 1..Len(r.events) :
                                r.events[i].what # "check_forward"

\* the combined cell ran both checks and printed both messages, each after
\* its check returned
C7_Witness ==
    /\ Ran("combined")
    /\ events["combined"] =
          <<Ev("call", "check_embedding"), Ev("return", "check_embedding"),
            Ev("print", EmbeddingMsg),
            Ev("call", "check_forward"), Ev("return", "check_forward"),
            Ev("print", ForwardMsg)>>
    /\ stdout["combined"] = <<EmbeddingMsg, ForwardMsg>>

====
